---- MODULE Spec2Model ----
(***************************************************************************)
(* A model of the DOKU payment client (src/src/DokuClient.ts) and of its   *)
(* signature helpers (src/utils/signature, kept as src/unnamed/part_001).  *)
(*                                                                         *)
(* Strings are sequences of symbols: a symbol is a run of characters that  *)
(* the model never splits (a label such as "Client-Id:", a line feed, an   *)
(* opaque value such as "req-123").  Concatenation is \o, the empty string *)
(* is << >>.  JavaScript values are tagged records: undefined, null,       *)
(* strings, numbers and objects.                                           *)
(***************************************************************************)
EXTENDS Integers, Sequences, FiniteSets, TLC

VARIABLES
    config,           \* DokuClient.config  (clientId, secretKey, isProduction)
    baseUrl,          \* DokuClient.baseUrl
    vsArgs,           \* arguments of the last validateSignature call
    vsResult,         \* its completion: a returned boolean or a thrown error
    vsSteps,          \* the checks and computations that call went through, in order
    vnResult,         \* completion of verifyNotificationSignature on the same arguments
    cnArgs,           \* two tuples of fields handed to generateSignature
    cnOut,            \* what signing the two tuples gave
    pc,               \* per createPayment call: where the call is suspended
    paymentData,      \* per call: the argument of createPayment
    request,          \* per call: url, headers and body built by createPayment
    frames,           \* per call: the fetchWithRetry activations, outermost first
    fetchCalls,       \* per call: the requests handed to fetch, in order
    waits,            \* per call: the one-second timers started
    result,           \* per call: how the promise of createPayment settled
    settled           \* per call: how many times that promise settled

sigVars == <<vsArgs, vsResult, vsSteps, vnResult>>
canonVars == <<cnArgs, cnOut>>
clientVars == <<config, baseUrl>>
payVars == <<pc, paymentData, request, frames, fetchCalls, waits, result, settled>>
vars == <<config, baseUrl, vsArgs, vsResult, vsSteps, vnResult, cnArgs, cnOut, pc, paymentData,
          request, frames, fetchCalls, waits, result, settled>>

-----------------------------------------------------------------------------
(* JavaScript values *)

Undefined == [t |-> "undefined"]
Null == [t |-> "null"]
Str(s) == [t |-> "string", s |-> s]
Num(n) == [t |-> "number", n |-> n]
Obj(f) == [t |-> "object", f |-> f]

\* ToBoolean: undefined, null, "" and 0 are falsy; everything else is truthy.
Truthy(v) ==
    CASE v.t = "undefined" -> FALSE
      [] v.t = "null" -> FALSE
      [] v.t = "string" -> Len(v.s) > 0
      [] v.t = "number" -> v.n # 0
      [] OTHER -> TRUE

\* a || b
OrElse(a, b) == IF Truthy(a) THEN a ELSE b

\* v.k for a value that is not undefined or null (those throw a TypeError)
Get(v, k) == IF v.t = "object" /\ k \in DOMAIN v.f THEN v.f[k] ELSE Undefined

\* v?.k
OptGet(v, k) == IF v.t \in {"undefined", "null"} THEN Undefined ELSE Get(v, k)

\* The string a value becomes under "label" + v.
ToJSString(v) ==
    CASE v.t = "string" -> v.s
      [] v.t = "undefined" -> <<"undefined">>
      [] v.t = "null" -> <<"null">>
      [] v.t = "number" -> <<ToString(v.n)>>
      [] OTHER -> <<"[object Object]">>

-----------------------------------------------------------------------------
(* utils/signature *)

\* Base64(SHA-256(jsonBody)): a collision-free hash, never the empty string.
generateDigest(jsonBody) == <<"sha256(">> \o jsonBody \o <<")">>

\* componentSignature without the Request-Timestamp line.
componentSignature_noTimestamp(clientId, requestId, target, digest, requestTimestamp) ==
    LET head == <<"Client-Id:">> \o clientId \o <<"\n">>
                \o <<"Request-Id:">> \o requestId \o <<"\n">>
                \o <<"Request-Target:">> \o target
    IN  IF Len(digest) > 0
        THEN head \o <<"\n">> \o <<"Digest:">> \o digest
        ELSE head

\* componentSignature with the Digest line whatever the digest is.
componentSignature_digestAlways(clientId, requestId, target, digest, requestTimestamp) ==
    <<"Client-Id:">> \o clientId \o <<"\n">>
    \o <<"Request-Id:">> \o requestId \o <<"\n">>
    \o <<"Request-Timestamp:">> \o requestTimestamp \o <<"\n">>
    \o <<"Request-Target:">> \o target
    \o <<"\n">> \o <<"Digest:">> \o digest

\* The signature component (canonical string) that generateSignature signs.
componentSignature(clientId, requestId, requestTarget, digest, requestTimestamp) ==
    LET head == <<"Client-Id:">> \o clientId \o <<"\n">>
                \o <<"Request-Id:">> \o requestId \o <<"\n">>
                \o <<"Request-Timestamp:">> \o requestTimestamp \o <<"\n">>
                \o <<"Request-Target:">> \o requestTarget
    IN  IF Len(digest) > 0
        THEN head \o <<"\n">> \o <<"Digest:">> \o digest
        ELSE head

\* Base64(HMAC-SHA256(message, key)): a collision-free keyed hash.
HmacSHA256(message, key) == <<"hmac(">> \o key \o <<";">> \o message \o <<")">>

generateSignature(clientId, requestId, requestTarget, digest, secretKey, requestTimestamp) ==
    <<"HMACSHA256=">>
    \o HmacSHA256(componentSignature(clientId, requestId, requestTarget, digest,
                                     requestTimestamp), secretKey)

-----------------------------------------------------------------------------
(* construction *)

ConfigInputs ==
    { [clientId |-> <<"TEST-CLIENT-ID">>, secretKey |-> <<"TEST-SECRET-KEY">>,
       isProduction |-> FALSE],
      [clientId |-> <<"BRN-0001">>, secretKey |-> <<"SK-live">>,
       isProduction |-> TRUE],
      [clientId |-> << >>, secretKey |-> <<"TEST-SECRET-KEY">>,
       isProduction |-> FALSE],
      [clientId |-> <<"TEST-CLIENT-ID">>, secretKey |-> << >>,
       isProduction |-> FALSE] }

\* ConfigSchema.parse succeeds (otherwise the constructor throws).
ConfigSchemaOk(c) == Len(c.clientId) >= 1 /\ Len(c.secretKey) >= 1

\* The constructor taking the sandbox for production and production for the
\* sandbox.
BaseUrlOf_swapped(c) ==
    IF c.isProduction THEN <<"https://api-sandbox.doku.com">>
    ELSE <<"https://api.doku.com">>

\* Lines 13-15: the base URL the constructor fixes.
BaseUrlOf(c) ==
    IF c.isProduction THEN <<"https://api.doku.com">>
    ELSE <<"https://api-sandbox.doku.com">>

-----------------------------------------------------------------------------
(* validateSignature *)

Return(v) == [kind |-> "return", value |-> v]
Throw(e) == [kind |-> "throw", error |-> e]
NotCalled == [kind |-> "none"]

\* validateFields with the request id and the timestamp passed to
\* generateSignature in each other's place.
validateFields_swapped(cfg, body, receivedSignature, timestamp, requestId, clientId, requestTarget) ==
    IF ~Truthy(receivedSignature) \/ ~Truthy(timestamp)
       \/ ~Truthy(requestId) \/ ~Truthy(clientId)
    THEN Return(FALSE)
    ELSE IF clientId # Str(cfg.clientId)
    THEN Return(FALSE)
    ELSE Return(Str(generateSignature(ToJSString(clientId), ToJSString(timestamp),
                                      requestTarget, generateDigest(body),
                                      cfg.secretKey, ToJSString(requestId)))
                = receivedSignature)

\* validateFields without the test that the four fields are present.
validateFields_unguarded(cfg, body, receivedSignature, timestamp, requestId, clientId, requestTarget) ==
    IF clientId # Str(cfg.clientId)
    THEN Return(FALSE)
    ELSE Return(Str(generateSignature(ToJSString(clientId), ToJSString(requestId),
                                      requestTarget, generateDigest(body),
                                      cfg.secretKey, ToJSString(timestamp)))
                = receivedSignature)

\* validateFields without the comparison of the client id with the configured one.
validateFields_anyClient(cfg, body, receivedSignature, timestamp, requestId, clientId, requestTarget) ==
    IF ~Truthy(receivedSignature) \/ ~Truthy(timestamp)
       \/ ~Truthy(requestId) \/ ~Truthy(clientId)
    THEN Return(FALSE)
    ELSE Return(Str(generateSignature(ToJSString(clientId), ToJSString(requestId),
                                      requestTarget, generateDigest(body),
                                      cfg.secretKey, ToJSString(timestamp)))
                = receivedSignature)

Ran(steps, completion) == [steps |-> steps, completion |-> completion]

\* validateSteps hashing the body and computing the HMAC before it looks at
\* the fields.
validateSteps_hashFirst(cfg, body, receivedSignature, timestamp, requestId, clientId, requestTarget) ==
    LET calculatedSignature ==
            generateSignature(ToJSString(clientId), ToJSString(requestId),
                              requestTarget, generateDigest(body), cfg.secretKey,
                              ToJSString(timestamp))
    IN  IF ~Truthy(receivedSignature) \/ ~Truthy(timestamp)
           \/ ~Truthy(requestId) \/ ~Truthy(clientId)
        THEN Ran(<<"digest", "hmac", "present">>, Return(FALSE))
        ELSE IF clientId # Str(cfg.clientId)
        THEN Ran(<<"digest", "hmac", "present", "clientId">>, Return(FALSE))
        ELSE Ran(<<"digest", "hmac", "present", "clientId", "compare">>,
                 Return(Str(calculatedSignature) = receivedSignature))

\* Lines 192-210: the checks made once the headers are destructured, with the
\* steps executed on the way: the presence test (192), the client id test
\* (196), generateDigest (200), generateSignature (201) and the comparison (210).
validateSteps(cfg, body, receivedSignature, timestamp, requestId, clientId, requestTarget) ==
    IF ~Truthy(receivedSignature) \/ ~Truthy(timestamp)
       \/ ~Truthy(requestId) \/ ~Truthy(clientId)
    THEN Ran(<<"present">>, Return(FALSE))
    ELSE IF clientId # Str(cfg.clientId)
    THEN Ran(<<"present", "clientId">>, Return(FALSE))
    ELSE LET digest == generateDigest(body)
             calculatedSignature ==
                 generateSignature(ToJSString(clientId), ToJSString(requestId),
                                   requestTarget, digest, cfg.secretKey,
                                   ToJSString(timestamp))
         IN  Ran(<<"present", "clientId", "digest", "hmac", "compare">>,
                 Return(Str(calculatedSignature) = receivedSignature))

\* Lines 192-210: what the checks return.
validateFields(cfg, body, receivedSignature, timestamp, requestId, clientId, requestTarget) ==
    validateSteps(cfg, body, receivedSignature, timestamp, requestId, clientId,
                  requestTarget).completion

validateSignature(cfg, body, headers, requestTarget) ==
    IF headers.t \in {"undefined", "null"}
    THEN Throw("TypeError")        \* destructuring undefined or null
    ELSE validateFields(cfg, body, Get(headers, "signature"),
                        Get(headers, "timestamp"), Get(headers, "requestId"),
                        Get(headers, "clientId"), requestTarget)

\* The steps of a validateSignature call: none when destructuring throws.
validateSignatureSteps(cfg, body, headers, requestTarget) ==
    IF headers.t \in {"undefined", "null"}
    THEN << >>
    ELSE validateSteps(cfg, body, Get(headers, "signature"),
                       Get(headers, "timestamp"), Get(headers, "requestId"),
                       Get(headers, "clientId"), requestTarget).steps

\* verifyNotificationSignature accepting a notification that has its
\* three fields.
verifyNotificationSignature_presence(body, receivedSignature, timestamp, requestId) ==
    IF ~Truthy(receivedSignature) \/ ~Truthy(timestamp) \/ ~Truthy(requestId)
    THEN Return(FALSE)
    ELSE Return(TRUE)

\* Lines 152-173: the placeholder returns false on both of its paths.
verifyNotificationSignature(body, receivedSignature, timestamp, requestId) ==
    IF ~Truthy(receivedSignature) \/ ~Truthy(timestamp) \/ ~Truthy(requestId)
    THEN Return(FALSE)
    ELSE Return(FALSE)

-----------------------------------------------------------------------------
(* inputs of validateSignature *)

WebhookBodies == { << >>, <<"{}">>, <<"{order:{invoice_number:INV-123}}">> }
RequestTargets == { << >>, <<"/api/callback">>, <<"/checkout/v1/payment">> }
Timestamps == { <<"2023-01-01T00:00:00", "Z">>, <<"2023-01-01T00:00:01", "Z">> }
RequestIds == { <<"req-123">>, <<"req-456">> }
ClientIds == { <<"TEST-CLIENT-ID">>, <<"BRN-0001">>, <<"WRONG-CLIENT-ID">> }
SecretKeys == { <<"TEST-SECRET-KEY">>, <<"SK-live">>, <<"OTHER-SECRET">> }

\* A header field: missing, empty, or one of the values.
FieldValues(S) == {Undefined, Str(<< >>)} \cup {Str(s) : s \in S}

\* The signatures a sender can put beside the other three fields: none, an
\* empty one, a wrong one, and the HMAC of those fields under each secret
\* (a missing field signed the way string concatenation renders it).
SignatureValues(body, timestamp, requestId, clientId, requestTarget) ==
    {Undefined, Str(<< >>), Str(<<"some-sig">>), Str(<<"HMACSHA256=invalid-signature">>)}
    \cup { Str(generateSignature(ToJSString(clientId), ToJSString(requestId),
                                 requestTarget, generateDigest(body), k,
                                 ToJSString(timestamp))) : k \in SecretKeys }

HeaderInputs(body, requestTarget) ==
    {Undefined, Null}
    \cup UNION { { Obj([signature |-> sg, timestamp |-> ts, requestId |-> rid,
                        clientId |-> cid]) :
                     sg \in SignatureValues(body, ts, rid, cid, requestTarget) } :
                   <<ts, rid, cid>> \in FieldValues(Timestamps)
                       \X FieldValues(RequestIds) \X FieldValues(ClientIds) }

-----------------------------------------------------------------------------
(* schema: PaymentRequestSchema *)

Arr(a) == [t |-> "array", a |-> a]

MinLength1(v) == v.t = "string" /\ Len(v.s) >= 1

\* z.string().email(): one "@" with something on either side of it.
IsEmail(v) ==
    /\ v.t = "string"
    /\ Cardinality({i \in 1..Len(v.s) : v.s[i] = "@"}) = 1
    /\ Len(v.s) >= 3
    /\ v.s[1] # "@"
    /\ v.s[Len(v.s)] # "@"

\* z.string().url(): a scheme followed by something.
IsUrl(v) ==
    /\ v.t = "string"
    /\ Len(v.s) >= 2
    /\ v.s[1] \in {"https://", "http://"}

IsPositive(v) == v.t = "number" /\ v.n > 0

IsStringArray(v) == v.t = "array" /\ \A i \in 1..Len(v.a) : v.a[i].t = "string"

\* The schema with customerEmail a plain string and amount any number.
PaymentRequestSchemaOk_lax(d) ==
    /\ d.t = "object"
    /\ MinLength1(Get(d, "orderId"))
    /\ Get(d, "amount").t = "number"
    /\ MinLength1(Get(d, "customerName"))
    /\ Get(d, "customerEmail").t = "string"
    /\ MinLength1(Get(d, "customerPhone"))
    /\ IsUrl(Get(d, "returnUrl"))

\* PaymentRequestSchema.parse(paymentData) returns (otherwise it throws a ZodError).
PaymentRequestSchemaOk(d) ==
    /\ d.t = "object"
    /\ MinLength1(Get(d, "orderId"))
    /\ IsPositive(Get(d, "amount"))
    /\ MinLength1(Get(d, "customerName"))
    /\ IsEmail(Get(d, "customerEmail"))
    /\ MinLength1(Get(d, "customerPhone"))
    /\ Get(d, "description").t \in {"undefined", "string"}
    /\ IsUrl(Get(d, "returnUrl"))
    /\ (Get(d, "expiredTime").t = "undefined" \/ IsPositive(Get(d, "expiredTime")))
    /\ (Get(d, "paymentMethodTypes").t = "undefined"
        \/ IsStringArray(Get(d, "paymentMethodTypes")))

JSError(name, message) == Obj([name |-> Str(<<name>>), message |-> Str(message)])

\* The error parse throws: its message is the serialized list of issues.
ZodError == JSError("ZodError", <<"[{code:..., path:[...], message:...}]">>)

-----------------------------------------------------------------------------
(* createPayment: the request *)

requestTarget == <<"/checkout/v1/payment">>

defaultPaymentMethods ==
    Arr(<< Str(<<"VIRTUAL_ACCOUNT_BCA">>), Str(<<"VIRTUAL_ACCOUNT_BANK_MANDIRI">>),
           Str(<<"VIRTUAL_ACCOUNT_BANK_SYARIAH_MANDIRI">>), Str(<<"VIRTUAL_ACCOUNT_DOKU">>),
           Str(<<"VIRTUAL_ACCOUNT_BRI">>), Str(<<"VIRTUAL_ACCOUNT_BNI">>),
           Str(<<"VIRTUAL_ACCOUNT_BANK_PERMATA">>), Str(<<"VIRTUAL_ACCOUNT_BANK_CIMB">>),
           Str(<<"VIRTUAL_ACCOUNT_BANK_DANAMON">>), Str(<<"ONLINE_TO_OFFLINE_ALFA">>),
           Str(<<"CREDIT_CARD">>), Str(<<"DIRECT_DEBIT_BRI">>), Str(<<"EMONEY_SHOPEEPAY">>),
           Str(<<"EMONEY_OVO">>), Str(<<"QRIS">>), Str(<<"PEER_TO_PEER_AKULAKU">>),
           Str(<<"PEER_TO_PEER_KREDIVO">>), Str(<<"PEER_TO_PEER_INDODANA">>) >>)

\* s.slice(0, n)
Slice0(s, n) == SubSeq(s, 1, IF Len(s) < n THEN Len(s) ELSE n)

\* Lines 59 and 83-101: the request body, with its defaults.
requestBody(data, requestId) ==
    [ order |->
        [ amount |-> Get(data, "amount"),
          invoice_number |-> Get(data, "orderId"),
          currency |-> Str(<<"IDR">>),
          callback_url |-> Get(data, "returnUrl") ],
      payment |->
        [ payment_due_date |-> OrElse(Get(data, "expiredTime"), Num(60)),
          payment_method_types |->
              OrElse(Get(data, "paymentMethodTypes"), defaultPaymentMethods) ],
      customer |->
        [ id |-> OrElse(Get(data, "customerEmail"),
                        Str(<<"GUEST-">> \o Slice0(requestId, 8))),
          name |-> Get(data, "customerName"),
          phone |-> Get(data, "customerPhone"),
          country |-> Str(<<"ID">>) ] ]

RECURSIVE stringifyItems(_)
stringifyItems(a) ==
    IF Len(a) = 0 THEN << >>
    ELSE IF Len(a) = 1 THEN ToJSString(a[1])
    ELSE ToJSString(a[1]) \o <<",">> \o stringifyItems(Tail(a))

\* JSON.stringify(requestBody): the members in insertion order.
stringify(b) ==
    <<"{order:{amount:">> \o ToJSString(b.order.amount)
    \o <<",invoice_number:">> \o ToJSString(b.order.invoice_number)
    \o <<",currency:">> \o ToJSString(b.order.currency)
    \o <<",callback_url:">> \o ToJSString(b.order.callback_url)
    \o <<"},payment:{payment_due_date:">> \o ToJSString(b.payment.payment_due_date)
    \o <<",payment_method_types:[">> \o stringifyItems(b.payment.payment_method_types.a)
    \o <<"]},customer:{id:">> \o ToJSString(b.customer.id)
    \o <<",name:">> \o ToJSString(b.customer.name)
    \o <<",phone:">> \o ToJSString(b.customer.phone)
    \o <<",country:">> \o ToJSString(b.customer.country) \o <<"}}">>

\* generateHeaders signing without the digest of the body.
generateHeaders_noDigest(cfg, requestId, requestTimestamp, target, body) ==
    [ ContentType |-> <<"application/json">>,
      ClientId |-> cfg.clientId,
      RequestId |-> requestId,
      RequestTimestamp |-> requestTimestamp,
      Signature |-> generateSignature(cfg.clientId, requestId, target, << >>,
                                      cfg.secretKey, requestTimestamp) ]

\* Lines 21-44: the headers of a request, its signature among them.
generateHeaders(cfg, requestId, requestTimestamp, target, body) ==
    LET digest == generateDigest(body)
        signature == generateSignature(cfg.clientId, requestId, target, digest,
                                       cfg.secretKey, requestTimestamp)
    IN  [ ContentType |-> <<"application/json">>,
          ClientId |-> cfg.clientId,
          RequestId |-> requestId,
          RequestTimestamp |-> requestTimestamp,
          Signature |-> signature ]

\* new Date().toISOString().slice(0, 19) + "Z"; an ISO string is the symbol
\* of its first 19 characters followed by the symbol of the rest.
requestTimestampAt(iso) == Slice0(iso, 1) \o <<"Z">>

\* Lines 56-118: what createPayment hands to fetchWithRetry.
buildRequest(cfg, url, data, requestId, iso) ==
    LET requestTimestamp == requestTimestampAt(iso)
        requestBodyString == stringify(requestBody(data, requestId))
    IN  [ url |-> url \o requestTarget,
          method |-> "POST",
          headers |-> generateHeaders(cfg, requestId, requestTimestamp,
                                      requestTarget, requestBodyString),
          body |-> requestBodyString ]

-----------------------------------------------------------------------------
(* createPayment: the result *)

PaymentResult(success, paymentUrl, invoiceNumber, amount, message, details) ==
    [ success |-> success, paymentUrl |-> paymentUrl, invoiceNumber |-> invoiceNumber,
      amount |-> amount, message |-> message, details |-> details ]

\* A response body that is not JSON: response.json() rejects.
Unparseable == [t |-> "unparseable"]

\* response.ok
Ok(response) == response.status >= 200 /\ response.status <= 299

\* await response.json()
json(response) ==
    IF response.body = Unparseable
    THEN Throw(JSError("SyntaxError", <<"Unexpected token < in JSON at position 0">>))
    ELSE Return(response.body)

\* Lines 120-127, once the body is parsed.
failedResult(errorData) ==
    IF errorData.t \in {"null", "undefined"}
    THEN Throw(JSError("TypeError", <<"Cannot read properties of null (reading 'error')">>))
    ELSE Return(PaymentResult(FALSE, Undefined, Undefined, Undefined,
                    OrElse(OptGet(Get(errorData, "error"), "message"),
                           Str(<<"Failed to create payment">>)),
                    errorData))

\* Lines 129-138, once the body is parsed.
successResult(res) ==
    IF res.t \in {"null", "undefined"}
    THEN Throw(JSError("TypeError", <<"Cannot read properties of null (reading 'response')">>))
    ELSE Return(PaymentResult(TRUE,
                    OrElse(OptGet(OptGet(Get(res, "response"), "payment"), "url"),
                           OptGet(Get(res, "payment"), "url")),
                    OrElse(OptGet(OptGet(Get(res, "response"), "order"), "invoice_number"),
                           OptGet(Get(res, "order"), "invoice_number")),
                    OrElse(OptGet(OptGet(Get(res, "response"), "order"), "amount"),
                           OptGet(Get(res, "order"), "amount")),
                    Undefined, Undefined))

\* Lines 120-138: what the try block does with the response fetchWithRetry returned.
handleResponse(response) ==
    LET parsed == json(response)
    IN  IF parsed.kind = "throw" THEN parsed
        ELSE IF ~Ok(response) THEN failedResult(parsed.value)
        ELSE successResult(parsed.value)

Fulfilled(v) == [kind |-> "fulfilled", value |-> v]
Rejected(e) == [kind |-> "rejected", reason |-> e]

\* Lines 139-146: the catch clause turns a thrown error into a failed result.
catchClause(error) ==
    Fulfilled(PaymentResult(FALSE, Undefined, Undefined, Undefined,
                  OrElse(OptGet(error, "message"), Str(<<"Internal server error">>)),
                  error))

\* createPayment without its catch clause: a thrown error rejects the promise.
settle_uncaught(completion) ==
    IF completion.kind = "throw" THEN Rejected(completion.error)
    ELSE Fulfilled(completion.value)

\* Lines 52-147: the promise of createPayment settles with the completion of its body.
settle(completion) ==
    IF completion.kind = "throw" THEN catchClause(completion.error)
    ELSE Fulfilled(completion.value)

-----------------------------------------------------------------------------
(* fetchWithRetry *)

DefaultRetries == 3

\* onResponse retrying every response of status 400 or more.
onResponse_retry4xx(retries, response) ==
    IF Ok(response) THEN "return"
    ELSE IF retries > 0 /\ response.status >= 400 THEN "retry"
    ELSE "return"

\* onResponse retrying while retries >= 0: one attempt too many.
onResponse_extraRetry(retries, response) ==
    IF Ok(response) THEN "return"
    ELSE IF retries >= 0 /\ response.status >= 500 THEN "retry"
    ELSE "return"

\* onResponse retrying every response that is not ok.
onResponse_retryAll(retries, response) ==
    IF Ok(response) THEN "return"
    ELSE IF retries > 0 THEN "retry"
    ELSE "return"

\* Lines 223-228: what an activation does with a response.
onResponse(retries, response) ==
    IF Ok(response) THEN "return"
    ELSE IF retries > 0 /\ response.status >= 500 THEN "retry"
    ELSE "return"

\* onRejection retrying while retries >= 0: one attempt too many.
onRejection_extraRetry(retries) == IF retries >= 0 THEN "retry" ELSE "throw"

\* Lines 229-235: what an activation does when fetch rejects.
onRejection(retries) == IF retries > 0 THEN "retry" ELSE "throw"

\* The outermost activation returning its own response instead of the
\* one the activation it started returns.
returned_outermost(fs) ==
    IF fs[1].outcome.kind = "response" THEN fs[1].outcome ELSE fs[Len(fs)].outcome

\* Lines 226 and 232: each activation returns what the activation it started
\* returns, so the call yields the outcome of the innermost one.
returned(fs) == fs[Len(fs)].outcome

\* The recursive call given a request with a new Request-Timestamp.
retryOptions_restamped(req) ==
    [req EXCEPT !.headers.RequestTimestamp = @ \o <<"+1s">>]

\* Lines 226 and 232: the recursive call is given the url and the options
\* object the activation itself was given.
retryOptions(req) == req

\* A retry budget shared by the calls of the client: the least budget any of
\* them has left, less one.
retriesLeft_shared(fr, c) ==
    LET started == {d \in DOMAIN fr : fr[d] # << >>}
        least == CHOOSE n \in {fr[d][Len(fr[d])].retries : d \in started} :
                     \A d \in started : n <= fr[d][Len(fr[d])].retries
    IN  least - 1

\* Lines 226 and 232: the recursive call of call c is given retries - 1, the
\* parameter of the activation that makes it.
retriesLeft(fr, c) == fr[c][Len(fr[c])].retries - 1

-----------------------------------------------------------------------------
(* inputs of createPayment and answers of the transport *)

Calls == {1, 2}

ValidPayment ==
    [ orderId |-> Str(<<"INV-123">>), amount |-> Num(10000),
      customerName |-> Str(<<"John Doe">>),
      customerEmail |-> Str(<<"john", "@", "example.com">>),
      customerPhone |-> Str(<<"08123456789">>),
      returnUrl |-> Str(<<"https://", "example.com/callback">>) ]

\* d with the member k set to v
With(d, k, v) == [x \in DOMAIN d \cup {k} |-> IF x = k THEN v ELSE d[x]]

\* d without the member k
Without(d, k) == [x \in DOMAIN d \ {k} |-> d[x]]

PaymentInputs ==
    { Obj(ValidPayment),
      Obj(With(With(ValidPayment, "expiredTime", Num(30)), "paymentMethodTypes",
               Arr(<<Str(<<"VIRTUAL_ACCOUNT_BCA">>), Str(<<"CREDIT_CARD">>)>>))),
      Obj(With(ValidPayment, "customerEmail", Str(<<"invalid-email">>))),
      Obj(With(ValidPayment, "customerEmail", Str(<< >>))),
      Obj(Without(ValidPayment, "customerEmail")),
      Obj(With(ValidPayment, "amount", Num(0))),
      Obj(With(ValidPayment, "amount", Num(-5))),
      Obj(With(ValidPayment, "orderId", Str(<< >>))),
      Obj(With(ValidPayment, "returnUrl", Str(<<"not a url">>))),
      Obj(With(ValidPayment, "expiredTime", Num(0))),
      Null }

\* uuidv4(): a string of characters.
Uuids ==
    { <<"9", "b", "1", "d", "e", "b", "4", "d", "-", "3", "b", "7", "d">>,
      <<"1", "b", "9", "d", "6", "b", "c", "d", "-", "b", "b", "f", "d">> }

\* uuidv4() returning an identifier it has returned before.
uuidv4_cached(used) == IF used = {} THEN Uuids ELSE used

\* uuidv4() after it has returned the identifiers in used: a version 4 UUID
\* is a fresh value.
uuidv4(used) == Uuids \ used

\* new Date().toISOString()
IsoNow == { <<"2023-01-01T00:00:00", ".000Z">>, <<"2023-01-01T00:00:01", ".250Z">> }

InvoiceBody(url, invoice, amount) ==
    [ payment |-> Obj([url |-> Str(<<url>>)]),
      order |-> Obj([invoice_number |-> Str(<<invoice>>), amount |-> Num(amount)]) ]

NestedBody == Obj([response |-> Obj(InvoiceBody("https://example.com/payment", "INV-123", 10000))])
FlatBody == Obj(InvoiceBody("https://example.com/flat", "INV-FLAT", 20000))
BothBody ==
    Obj(With(InvoiceBody("https://example.com/outer", "INV-OUTER", 30000), "response",
             Obj(InvoiceBody("https://example.com/inner", "INV-INNER", 0))))
StaleBody == Obj([response |-> Obj(InvoiceBody("https://example.com/stale", "INV-STALE", 99))])
EmptyBody == Obj(<< >>)
ErrorBody(m) == Obj([error |-> Obj([message |-> Str(m)])])
ErrorNoMessage == Obj([error |-> Obj(<< >>)])

Response(status, body) == [kind |-> "response", status |-> status, body |-> body]

\* Answers that end the call: 2xx, 3xx and 4xx.
TerminalResponses ==
    { Response(200, NestedBody), Response(201, FlatBody), Response(200, BothBody),
      Response(200, EmptyBody), Response(204, Unparseable), Response(200, Null),
      Response(400, ErrorBody(<<"Invalid Request">>)), Response(404, EmptyBody),
      Response(422, ErrorBody(<< >>)), Response(401, ErrorNoMessage),
      Response(400, Unparseable), Response(403, Null), Response(304, EmptyBody) }

\* Answers with a status of 500 or more.
ServerErrorResponses ==
    { Response(500, EmptyBody), Response(502, Unparseable),
      Response(503, StaleBody), Response(500, ErrorBody(<<"Service Unavailable">>)) }

Responses == TerminalResponses \cup ServerErrorResponses

\* What fetch rejects with.
TransportErrors ==
    { JSError("Error", <<"Network Error">>), JSError("Error", << >>) }

Rejection(e) == [kind |-> "rejection", error |-> e]
Pending == [kind |-> "pending"]
NoRequest == [kind |-> "none"]
Frame(retries, outcome) == [retries |-> retries, outcome |-> outcome]

\* The last activation of call c, and fs with its outcome recorded.
Top(fs) == fs[Len(fs)]
Answered(fs, outcome) == [fs EXCEPT ![Len(fs)].outcome = outcome]

-----------------------------------------------------------------------------
(* the state machine *)

\* No validateSignature call and no signing of tuples has been made.
SigIdle ==
    /\ vsArgs = NotCalled
    /\ vsResult = NotCalled
    /\ vsSteps = << >>
    /\ vnResult = NotCalled
CanonIdle == cnArgs = NotCalled /\ cnOut = NotCalled

\* The identifiers uuidv4() has returned to the calls made so far.
IssuedIds ==
    {request[c].headers.RequestId : c \in {d \in Calls : request[d] # NoRequest}}

\* The client after construction; nothing has been called yet.
ClientInit ==
    /\ config \in {c \in ConfigInputs : ConfigSchemaOk(c)}
    /\ baseUrl = BaseUrlOf(config)

PayInit ==
    /\ pc = [c \in Calls |-> "idle"]
    /\ paymentData = [c \in Calls |-> Undefined]
    /\ request = [c \in Calls |-> NoRequest]
    /\ frames = [c \in Calls |-> << >>]
    /\ fetchCalls = [c \in Calls |-> << >>]
    /\ waits = [c \in Calls |-> 0]
    /\ result = [c \in Calls |-> Pending]
    /\ settled = [c \in Calls |-> 0]

Init ==
    /\ ClientInit
    /\ PayInit
    /\ SigIdle
    /\ CanonIdle

\* createPayment(data) up to its first await: validation, the request and
\* the first fetch; invalid input settles the call at once.
CreatePayment(c) ==
    /\ pc[c] = "idle"
    /\ \E data \in PaymentInputs, requestId \in uuidv4(IssuedIds), iso \in IsoNow :
         /\ paymentData' = [paymentData EXCEPT ![c] = data]
         /\ IF PaymentRequestSchemaOk(data)
            THEN LET req == buildRequest(config, baseUrl, data, requestId, iso)
                 IN  /\ request' = [request EXCEPT ![c] = req]
                     /\ frames' = [frames EXCEPT ![c] = <<Frame(DefaultRetries, Pending)>>]
                     /\ fetchCalls' = [fetchCalls EXCEPT ![c] = <<req>>]
                     /\ pc' = [pc EXCEPT ![c] = "fetch"]
                     /\ UNCHANGED <<result, settled>>
            ELSE /\ result' = [result EXCEPT ![c] = settle(Throw(ZodError))]
                 /\ settled' = [settled EXCEPT ![c] = @ + 1]
                 /\ pc' = [pc EXCEPT ![c] = "done"]
                 /\ UNCHANGED <<request, frames, fetchCalls>>
    /\ UNCHANGED <<waits, clientVars, sigVars, canonVars>>

\* fetch resolves with a response: the activation returns it or starts the timer.
FetchResponds(c) ==
    /\ pc[c] = "fetch"
    /\ \E response \in Responses :
         /\ frames' = [frames EXCEPT ![c] = Answered(@, response)]
         /\ IF onResponse(Top(frames[c]).retries, response) = "retry"
            THEN /\ pc' = [pc EXCEPT ![c] = "backoff"]
                 /\ waits' = [waits EXCEPT ![c] = @ + 1]
            ELSE /\ pc' = [pc EXCEPT ![c] = "json"]
                 /\ UNCHANGED waits
    /\ UNCHANGED <<paymentData, request, fetchCalls, result, settled, clientVars, sigVars, canonVars>>

\* fetch rejects: the activation starts the timer, or throws into the catch
\* clause of createPayment.
FetchRejects(c) ==
    /\ pc[c] = "fetch"
    /\ \E error \in TransportErrors :
         /\ frames' = [frames EXCEPT ![c] = Answered(@, Rejection(error))]
         /\ IF onRejection(Top(frames[c]).retries) = "retry"
            THEN /\ pc' = [pc EXCEPT ![c] = "backoff"]
                 /\ waits' = [waits EXCEPT ![c] = @ + 1]
                 /\ UNCHANGED <<result, settled>>
            ELSE /\ pc' = [pc EXCEPT ![c] = "done"]
                 /\ result' = [result EXCEPT ![c] = settle(Throw(error))]
                 /\ settled' = [settled EXCEPT ![c] = @ + 1]
                 /\ UNCHANGED waits
    /\ UNCHANGED <<paymentData, request, fetchCalls, clientVars, sigVars, canonVars>>

\* The one-second timer fires: a new activation with one retry less fetches
\* the same url with the same options.
BackoffElapses(c) ==
    /\ pc[c] = "backoff"
    /\ frames' = [frames EXCEPT ![c] = Append(@, Frame(retriesLeft(frames, c), Pending))]
    /\ fetchCalls' = [fetchCalls EXCEPT ![c] = Append(@, retryOptions(fetchCalls[c][Len(fetchCalls[c])]))]
    /\ pc' = [pc EXCEPT ![c] = "fetch"]
    /\ UNCHANGED <<paymentData, request, waits, result, settled, clientVars, sigVars, canonVars>>

\* response.json() settles: createPayment builds its result and returns.
JsonSettles(c) ==
    /\ pc[c] = "json"
    /\ result' = [result EXCEPT ![c] = settle(handleResponse(returned(frames[c])))]
    /\ settled' = [settled EXCEPT ![c] = @ + 1]
    /\ pc' = [pc EXCEPT ![c] = "done"]
    /\ UNCHANGED <<paymentData, request, frames, fetchCalls, waits, clientVars, sigVars, canonVars>>

Step(c) ==
    \/ CreatePayment(c)
    \/ FetchResponds(c)
    \/ FetchRejects(c)
    \/ BackoffElapses(c)
    \/ JsonSettles(c)

\* One createPayment call on the client.
Next == Step(1)

Spec == Init /\ [][Next]_vars

\* The transport answers every fetch, timers fire and promises settle.
Progress(c) ==
    FetchResponds(c) \/ FetchRejects(c) \/ BackoffElapses(c) \/ JsonSettles(c)

FairSpec == Init /\ [][Next]_vars /\ WF_vars(Progress(1))

-----------------------------------------------------------------------------
(* two concurrent createPayment calls on one client *)

\* The inputs and the transport answers of the concurrent calls.
ConcInputs ==
    { Obj(ValidPayment),
      Obj(With(ValidPayment, "customerEmail", Str(<<"invalid-email">>))) }
ConcIsoNow == { <<"2023-01-01T00:00:00", ".000Z">> }
ConcAnswers ==
    { Response(200, NestedBody), Response(400, ErrorBody(<<"Invalid Request">>)),
      Response(500, EmptyBody), Rejection(JSError("Error", <<"Network Error">>)) }

\* Every call made has one of these inputs, and every fetch one of these answers.
InScope ==
    \A c \in Calls :
      /\ paymentData[c] \in ConcInputs \cup {Undefined}
      /\ request[c] # NoRequest
           => request[c].headers.RequestTimestamp \in {requestTimestampAt(iso) : iso \in ConcIsoNow}
      /\ \A i \in 1..Len(frames[c]) : frames[c][i].outcome \in ConcAnswers \cup {Pending}

\* A step of either call; the event loop interleaves the calls at their awaits.
ConcStep(c) == Step(c) /\ InScope'

ConcNext == ConcStep(1) \/ ConcStep(2)

ConcSpec == Init /\ [][ConcNext]_vars

\* The transport answers, timers fire and promises settle for the second
\* call; nothing is assumed about the first.
ConcFairSpec == Init /\ [][ConcNext]_vars /\ WF_vars(Progress(2) /\ InScope')

-----------------------------------------------------------------------------
(* validateSignature as called by a webhook handler *)

\* A caller holds the arguments of one validateSignature call.
InitSig ==
    /\ ClientInit
    /\ PayInit
    /\ \E body \in WebhookBodies, target \in RequestTargets :
         \E headers \in HeaderInputs(body, target) :
           vsArgs = [kind |-> "call", body |-> body, headers |-> headers,
                     requestTarget |-> target]
    /\ vsResult = NotCalled
    /\ vsSteps = << >>
    /\ vnResult = NotCalled
    /\ CanonIdle

\* The caller invokes validateSignature; the call changes nothing of the client.
ValidateSignatureCall ==
    /\ vsArgs.kind = "call"
    /\ vsResult = NotCalled
    /\ vsResult' = validateSignature(config, vsArgs.body, vsArgs.headers,
                                     vsArgs.requestTarget)
    /\ vsSteps' = validateSignatureSteps(config, vsArgs.body, vsArgs.headers,
                                         vsArgs.requestTarget)
    /\ UNCHANGED <<vsArgs, vnResult, clientVars, payVars, canonVars>>

\* The caller invokes verifyNotificationSignature with the body, signature,
\* timestamp and request id it holds.
VerifyNotificationCall ==
    /\ vsArgs.kind = "call"
    /\ vnResult = NotCalled
    /\ vnResult' = verifyNotificationSignature(vsArgs.body,
                                               OptGet(vsArgs.headers, "signature"),
                                               OptGet(vsArgs.headers, "timestamp"),
                                               OptGet(vsArgs.headers, "requestId"))
    /\ UNCHANGED <<vsArgs, vsResult, vsSteps, clientVars, payVars, canonVars>>

NextSig == ValidateSignatureCall \/ VerifyNotificationCall

SigSpec == InitSig /\ [][NextSig]_vars

-----------------------------------------------------------------------------
(* createPayment and validateSignature calls on one client *)

\* The notifications a webhook handler receives while payments are created:
\* one the client's own credentials signed, one with a wrong signature, and
\* one without headers.
MixedBody == <<"{}">>
MixedTarget == <<"/api/callback">>
MixedInbound(cfg) ==
    LET rid == <<"req-123">>
        ts == <<"2023-01-01T00:00:00", "Z">>
        sig(cid) == Str(generateSignature(cid, rid, MixedTarget, generateDigest(MixedBody),
                                          cfg.secretKey, ts))
        inbound(sg, t, cid) ==
            Obj([signature |-> sg, timestamp |-> t, requestId |-> Str(rid),
                 clientId |-> Str(cid)])
    IN  { inbound(sig(cfg.clientId), Str(ts), cfg.clientId),
          inbound(Str(<<"HMACSHA256=invalid-signature">>), Str(ts), cfg.clientId),
          Null }

\* A notification arrives: the handler holds the arguments of its next
\* validateSignature call.
WebhookArrives ==
    /\ vsArgs = NotCalled \/ vsResult # NotCalled
    /\ \E headers \in MixedInbound(config) :
         vsArgs' = [kind |-> "call", body |-> MixedBody, headers |-> headers,
                    requestTarget |-> MixedTarget]
    /\ vsResult' = NotCalled
    /\ vsSteps' = << >>
    /\ UNCHANGED <<vnResult, clientVars, payVars, canonVars>>

MixedNext ==
    \/ ConcStep(1)
    \/ ConcStep(2)
    \/ WebhookArrives
    \/ ValidateSignatureCall

MixedSpec == Init /\ [][MixedNext]_vars

-----------------------------------------------------------------------------
(* generateSignature on two tuples of fields *)

\* The body whose digest the tuples carry.
CanonBody == <<"{}">>

\* Values of the five fields: plain ones, and ones that hold a line feed
\* followed by the label and value of the next line.
CanonClientIds(cfg) ==
    { cfg.clientId, cfg.clientId \o <<"\n", "Request-Id:", "req-123">> }
CanonRequestIds ==
    { <<"req-123">>, <<"req-456">>,
      <<"req-123", "\n", "Request-Id:", "req-456">>,
      <<"req-123", "\n", "Request-Timestamp:", "2023-01-01T00:00:00", "Z">> }
CanonTimestamps ==
    { <<"2023-01-01T00:00:00", "Z">>, <<"2023-01-01T00:00:01", "Z">>,
      <<"2023-01-01T00:00:00", "Z", "\n", "Request-Timestamp:",
        "2023-01-01T00:00:01", "Z">> }
CanonTargets ==
    { <<"/api/callback">>,
      <<"/api/callback", "\n", "Digest:">> \o generateDigest(CanonBody) }
CanonDigests == { << >>, generateDigest(CanonBody) }

CanonTuples(cfg) ==
    [ clientId : CanonClientIds(cfg), requestId : CanonRequestIds,
      requestTimestamp : CanonTimestamps, requestTarget : CanonTargets,
      digest : CanonDigests ]

\* The signature component and the signature of a tuple under the client's key.
componentOf(t) ==
    componentSignature(t.clientId, t.requestId, t.requestTarget, t.digest,
                       t.requestTimestamp)
signatureOf(cfg, t) ==
    generateSignature(t.clientId, t.requestId, t.requestTarget, t.digest,
                      cfg.secretKey, t.requestTimestamp)

\* validateSignature given the signature sig beside the fields of the tuple t
\* and the body; it digests the body itself, so this applies to the tuples
\* that carry the digest of the body.
presented(cfg, sig, t) ==
    IF t.digest = generateDigest(CanonBody)
    THEN validateSignature(cfg, CanonBody,
                           Obj([signature |-> Str(sig),
                                timestamp |-> Str(t.requestTimestamp),
                                requestId |-> Str(t.requestId),
                                clientId |-> Str(t.clientId)]),
                           t.requestTarget)
    ELSE NotCalled

\* A caller holds two tuples of fields.
InitCanon ==
    /\ ClientInit
    /\ PayInit
    /\ SigIdle
    /\ \E a \in CanonTuples(config), b \in CanonTuples(config) :
         cnArgs = [kind |-> "pair", a |-> a, b |-> b]
    /\ cnOut = NotCalled

\* The caller signs both tuples and presents the first signature beside the
\* fields of the second tuple.
SignBoth ==
    /\ cnArgs.kind = "pair"
    /\ cnOut = NotCalled
    /\ cnOut' = [ kind |-> "signed",
                  componentA |-> componentOf(cnArgs.a),
                  componentB |-> componentOf(cnArgs.b),
                  signatureA |-> signatureOf(config, cnArgs.a),
                  signatureB |-> signatureOf(config, cnArgs.b),
                  verdict |-> presented(config, signatureOf(config, cnArgs.a), cnArgs.b) ]
    /\ UNCHANGED <<cnArgs, clientVars, payVars, sigVars>>

NextCanon == SignBoth

CanonSpec == InitCanon /\ [][NextCanon]_vars

-----------------------------------------------------------------------------
(* properties *)

Finished(c) == pc[c] = "done"
Attempts(c) == Len(fetchCalls[c])
IsResponse(o, lo, hi) == o.kind = "response" /\ o.status >= lo /\ o.status <= hi
IsServerError(o) == o.kind = "response" /\ o.status >= 500
IsTransient(o) == o.kind = "rejection" \/ IsServerError(o)
Failed(c) == result[c].kind = "fulfilled" /\ result[c].value.success = FALSE
Succeeded(c) == result[c].kind = "fulfilled" /\ result[c].value.success = TRUE
ParsedBody(o) == o.body # Unparseable /\ o.body # Null

\* The message of a provider failure: error.message when there is one,
\* otherwise the fallback.
ProviderMessage(body) ==
    LET m == OptGet(Get(body, "error"), "message")
    IN  IF Truthy(m) THEN m ELSE Str(<<"Failed to create payment">>)

\* C1: a createPayment call makes at most 4 transport attempts whatever the
\* transport answers; when the transport rejects every attempt the call makes
\* exactly 4 attempts and returns success=false.
C1_RetryBudget ==
    \A c \in Calls :
      /\ Attempts(c) <= 4
      /\ ( /\ Finished(c)
           /\ Attempts(c) > 0
           /\ \A i \in 1..Len(frames[c]) : frames[c][i].outcome.kind = "rejection" )
         => (Attempts(c) = 4 /\ Failed(c))

C1_Witness ==
    /\ Finished(1)
    /\ Attempts(1) = 4
    /\ \A i \in 1..4 : frames[1][i].outcome.kind = "rejection"
    /\ Failed(1)

\* A response of status 400..499 is the last thing the call fetches: no
\* activation follows the one that received it, and no timer is started.
NoRetryAfter4xx(c) ==
    \A i \in 1..Len(frames[c]) :
      IsResponse(frames[c][i].outcome, 400, 499)
        => /\ i = Len(frames[c])
           /\ Attempts(c) = i
           /\ waits[c] = i - 1
           /\ pc[c] \in {"json", "done"}

\* C2 as stated: a response of status 400..499 is never retried, and the call
\* returns success=false with the provider's error.message (or the fallback
\* "Failed to create payment") as message and the error body as details.
C2_Original ==
    \A c \in Calls :
      /\ NoRetryAfter4xx(c)
      /\ (Finished(c) /\ Attempts(c) > 0 /\ IsResponse(returned(frames[c]), 400, 499))
         => /\ Failed(c)
            /\ result[c].value.message = ProviderMessage(returned(frames[c]).body)
            /\ result[c].value.details = returned(frames[c]).body

\* C2 (amended): a response of status 400..499 is never retried and the call
\* returns success=false; when the body of that response parses to a JSON
\* value other than null, the message is the provider's error.message (or the
\* fallback) and details is the parsed body.
C2_NoRetryOn4xx ==
    \A c \in Calls :
      /\ NoRetryAfter4xx(c)
      /\ (Finished(c) /\ Attempts(c) > 0 /\ IsResponse(returned(frames[c]), 400, 499))
         => /\ Failed(c)
            /\ ParsedBody(returned(frames[c]))
               => /\ result[c].value.message = ProviderMessage(returned(frames[c]).body)
                  /\ result[c].value.details = returned(frames[c]).body

C2_Witness ==
    /\ Finished(1)
    /\ Attempts(1) = 1
    /\ frames[1][1].outcome = Response(400, ErrorBody(<<"Invalid Request">>))
    /\ Failed(1)
    /\ result[1].value.message = Str(<<"Invalid Request">>)

\* The values a payload offers for a field: under the response envelope and flat.
PayloadValues(body, section, key) ==
    { OptGet(OptGet(Get(body, "response"), section), key),
      OptGet(Get(body, section), key) }

FromPayload(r, body) ==
    /\ r.paymentUrl \in PayloadValues(body, "payment", "url")
    /\ r.invoiceNumber \in PayloadValues(body, "order", "invoice_number")
    /\ r.amount \in PayloadValues(body, "order", "amount")

\* A 2xx response is the last thing the call fetches: after k transient
\* failures it is attempt k+1 and no attempt follows.
NoAttemptAfter2xx(c) ==
    \A i \in 1..Len(frames[c]) :
      IsResponse(frames[c][i].outcome, 200, 299)
        => /\ i = Len(frames[c])
           /\ Attempts(c) = i
           /\ i <= 4
           /\ \A j \in 1..(i - 1) : IsTransient(frames[c][j].outcome)
           /\ pc[c] \in {"json", "done"}

\* C3 as stated: k transient failures followed by a 2xx response give exactly
\* k+1 attempts and success=true with the fields of the payload of attempt k+1.
C3_Original ==
    \A c \in Calls :
      /\ NoAttemptAfter2xx(c)
      /\ (Finished(c) /\ Attempts(c) > 0 /\ IsResponse(returned(frames[c]), 200, 299))
         => /\ Succeeded(c)
            /\ FromPayload(result[c].value, returned(frames[c]).body)

\* C3 (amended): k transient failures followed by a 2xx response give exactly
\* k+1 attempts; when the body of that response parses to a JSON value other
\* than null, the call returns success=true with the fields of that payload.
C3_RetryThenSuccess ==
    \A c \in Calls :
      /\ NoAttemptAfter2xx(c)
      /\ ( /\ Finished(c)
           /\ Attempts(c) > 0
           /\ IsResponse(Top(frames[c]).outcome, 200, 299)
           /\ ParsedBody(Top(frames[c]).outcome) )
         => /\ Succeeded(c)
            /\ FromPayload(result[c].value, Top(frames[c]).outcome.body)

C3_Witness ==
    /\ Finished(1)
    /\ Attempts(1) = 4
    /\ frames[1][1].outcome.kind = "rejection"
    /\ frames[1][2].outcome = Response(503, StaleBody)
    /\ frames[1][3].outcome = Response(502, Unparseable)
    /\ frames[1][4].outcome = Response(200, NestedBody)
    /\ Succeeded(1)
    /\ result[1].value.invoiceNumber = Str(<<"INV-123">>)

\* The inputs of the model that the payment-request schema rejects.
InvalidPaymentInputs ==
    PaymentInputs \ { Obj(ValidPayment),
                      Obj(With(With(ValidPayment, "expiredTime", Num(30)),
                               "paymentMethodTypes",
                               Arr(<<Str(<<"VIRTUAL_ACCOUNT_BCA">>), Str(<<"CREDIT_CARD">>)>>))) }

\* C4: invalid input never reaches the transport: zero attempts and a
\* success=false result whose details are defined.
C4_InvalidInputNoFetch ==
    \A c \in Calls :
      (pc[c] # "idle" /\ paymentData[c] \in InvalidPaymentInputs)
        => /\ Attempts(c) = 0
           /\ Finished(c)
           /\ Failed(c)
           /\ result[c].value.details # Undefined

C4_Witness ==
    /\ Finished(1)
    /\ paymentData[1] = Obj(With(ValidPayment, "customerEmail", Str(<<"invalid-email">>)))
    /\ Attempts(1) = 0
    /\ Failed(1)

\* The call ended in the catch clause of createPayment: the schema rejected
\* the input, fetchWithRetry threw, or reading the body threw.
Caught(c) ==
    /\ Finished(c)
    /\ \/ ~PaymentRequestSchemaOk(paymentData[c])
       \/ Top(frames[c]).outcome.kind = "rejection"
       \/ ~ParsedBody(Top(frames[c]).outcome)

\* C5: every exception raised inside createPayment becomes a failed result
\* whose message is exactly "Internal server error".
C5_GenericMessage ==
    \A c \in Calls :
      Caught(c) => /\ Failed(c)
                   /\ result[c].value.message = Str(<<"Internal server error">>)

\* C6: every createPayment call that was made ends, its promise settles
\* exactly once and is fulfilled with a result, never rejected; a settled
\* call stays as it is.
C6_SettlesOnce ==
    /\ \A c \in Calls : (pc[c] # "idle") ~> Finished(c)
    /\ [](\A c \in Calls :
            /\ settled[c] = (IF Finished(c) THEN 1 ELSE 0)
            /\ result[c].kind = (IF Finished(c) THEN "fulfilled" ELSE "pending")
            /\ Finished(c) => result[c].value.success \in BOOLEAN)
    /\ [][\A c \in Calls :
            Finished(c) => (pc'[c] = pc[c] /\ result'[c] = result[c]
                            /\ settled'[c] = settled[c])]_vars

C6_Witness ==
    /\ Finished(1)
    /\ Attempts(1) = 4
    /\ Top(frames[1]).outcome = Response(502, Unparseable)
    /\ result[1].kind = "fulfilled"
    /\ settled[1] = 1

\* C7: a result with success=true has paymentUrl and invoiceNumber; a result
\* with success=false has a message and details.
C7_WellFormedResult ==
    \A c \in Calls :
      Finished(c) =>
        /\ result[c].kind = "fulfilled"
        /\ result[c].value.success
             => /\ result[c].value.paymentUrl # Undefined
                /\ result[c].value.invoiceNumber # Undefined
        /\ ~result[c].value.success
             => /\ result[c].value.message # Undefined
                /\ result[c].value.details # Undefined

\* Four attempts, each answered with a status of 500 or more.
FourServerErrors(c) ==
    /\ Len(frames[c]) = 4
    /\ \A i \in 1..4 : IsServerError(frames[c][i].outcome)

\* After four server errors the fourth response is returned to createPayment:
\* no timer, no fifth attempt, no error thrown by fetchWithRetry.
FourthReturned(c) ==
    FourServerErrors(c)
      => /\ Attempts(c) = 4
         /\ waits[c] = 3
         /\ pc[c] \in {"json", "done"}

\* C8 as stated: after four server errors the fourth response is returned
\* as-is and createPayment reports a provider failure: success=false, the
\* provider's error.message or the fallback, the error body as details.
C8_Original ==
    \A c \in Calls :
      /\ Len(frames[c]) <= 4
      /\ FourthReturned(c)
      /\ (Finished(c) /\ FourServerErrors(c))
         => /\ Failed(c)
            /\ result[c].value.message = ProviderMessage(Top(frames[c]).outcome.body)
            /\ result[c].value.details = Top(frames[c]).outcome.body

\* C8 (amended): after four server errors the fourth response is returned
\* as-is, no fifth attempt is made and the call returns success=false; when
\* the body of the fourth response parses to a JSON value other than null the
\* result is the provider failure (error.message or the fallback, the body as
\* details).
C8_ExhaustedServerError ==
    \A c \in Calls :
      /\ Len(frames[c]) <= 4
      /\ FourthReturned(c)
      /\ (Finished(c) /\ FourServerErrors(c))
         => /\ Failed(c)
            /\ ParsedBody(Top(frames[c]).outcome)
               => /\ result[c].value.message
                       = ProviderMessage(Top(frames[c]).outcome.body)
                  /\ result[c].value.details = Top(frames[c]).outcome.body

C8_Witness ==
    /\ Finished(1)
    /\ FourServerErrors(1)
    /\ Top(frames[1]).outcome = Response(500, EmptyBody)
    /\ Failed(1)
    /\ result[1].value.message = Str(<<"Failed to create payment">>)
    /\ result[1].value.details = EmptyBody

\* The four header fields of the recorded validateSignature call.
HeaderField(k) == Get(vsArgs.headers, k)
Validated == vsArgs.kind = "call" /\ vsResult # NotCalled
NonEmptyString(v) == v.t = "string" /\ Len(v.s) > 0

\* The signature the client's own credentials give for the recorded
\* request id, timestamp, target and body.
OwnSignature ==
    Str(generateSignature(config.clientId, ToJSString(HeaderField("requestId")),
                          vsArgs.requestTarget, generateDigest(vsArgs.body),
                          config.secretKey, ToJSString(HeaderField("timestamp"))))

\* C9: a signature made by generateSignature with the configured client id and
\* secret key over non-empty fields is accepted by validateSignature.
C9_RoundTrip ==
    ( /\ Validated
      /\ vsArgs.headers.t = "object"
      /\ NonEmptyString(HeaderField("requestId"))
      /\ NonEmptyString(HeaderField("timestamp"))
      /\ HeaderField("clientId") = Str(config.clientId)
      /\ HeaderField("signature") = OwnSignature )
    => vsResult = Return(TRUE)

C9_Witness ==
    /\ Validated
    /\ vsArgs.headers.t = "object"
    /\ vsArgs.body = <<"{order:{invoice_number:INV-123}}">>
    /\ vsArgs.requestTarget = <<"/api/callback">>
    /\ HeaderField("requestId") = Str(<<"req-123">>)
    /\ HeaderField("timestamp") = Str(<<"2023-01-01T00:00:00", "Z">>)
    /\ HeaderField("clientId") = Str(config.clientId)
    /\ HeaderField("signature") = OwnSignature
    /\ vsResult = Return(TRUE)

\* C10: validateSignature returns false when any of signature, timestamp,
\* requestId and clientId is missing or empty, whatever the other fields,
\* the body and the target are.
C10_MissingFieldRejected ==
    ( /\ Validated
      /\ vsArgs.headers.t = "object"
      /\ \E k \in {"signature", "timestamp", "requestId", "clientId"} :
           HeaderField(k) \in {Undefined, Str(<< >>)} )
    => vsResult = Return(FALSE)

\* The timestamp is missing and the signature is the HMAC of the remaining
\* fields under the client's own credentials.
C10_Witness ==
    /\ Validated
    /\ vsArgs.headers.t = "object"
    /\ HeaderField("timestamp") = Undefined
    /\ HeaderField("requestId") = Str(<<"req-123">>)
    /\ HeaderField("clientId") = Str(config.clientId)
    /\ HeaderField("signature") = OwnSignature
    /\ vsResult = Return(FALSE)

\* The HMAC of the recorded fields, the inbound client id included, under key.
InboundSignature(key) ==
    Str(generateSignature(ToJSString(HeaderField("clientId")),
                          ToJSString(HeaderField("requestId")),
                          vsArgs.requestTarget, generateDigest(vsArgs.body), key,
                          ToJSString(HeaderField("timestamp"))))

\* C11: validateSignature returns false whenever the inbound client id is not
\* the configured one, whatever the signature is.
C11_ForeignClientRejected ==
    ( /\ Validated
      /\ vsArgs.headers.t = "object"
      /\ HeaderField("clientId") # Str(config.clientId) )
    => vsResult = Return(FALSE)

\* A foreign client id with the HMAC of the inbound fields under the
\* configured secret key.
C11_Witness ==
    /\ Validated
    /\ vsArgs.headers.t = "object"
    /\ HeaderField("clientId") = Str(<<"WRONG-CLIENT-ID">>)
    /\ NonEmptyString(HeaderField("requestId"))
    /\ NonEmptyString(HeaderField("timestamp"))
    /\ HeaderField("signature") = InboundSignature(config.secretKey)
    /\ vsResult = Return(FALSE)

Signed == cnArgs.kind = "pair" /\ cnOut.kind = "signed"
CanonFields == {"clientId", "requestId", "requestTimestamp", "requestTarget", "digest"}
DifferingFields == {f \in CanonFields : cnArgs.a[f] # cnArgs.b[f]}
HasLineFeed(s) == \E i \in 1..Len(s) : s[i] = "\n"
NoLineFeeds == \A f \in CanonFields : ~HasLineFeed(cnArgs.a[f]) /\ ~HasLineFeed(cnArgs.b[f])

\* The two tuples give different signature components and signatures, and
\* validateSignature rejects the first signature beside the second tuple.
Distinguished ==
    /\ cnOut.componentA # cnOut.componentB
    /\ cnOut.signatureA # cnOut.signatureB
    /\ cnOut.verdict # NotCalled => cnOut.verdict = Return(FALSE)

\* C12 as stated: any two tuples that differ in at least one field, whatever
\* strings the fields hold, give different signature components, hence
\* different signatures, and a signature made for one is rejected for the other.
C12_Original == (Signed /\ DifferingFields # {}) => Distinguished

\* C12 (amended): two tuples that differ in exactly one field, or that differ
\* in any fields while no field value holds a line feed, give different
\* signature components and signatures, and a signature made for one is
\* rejected for the other.
C12_FieldChangesSignature ==
    ( /\ Signed
      /\ \/ Cardinality(DifferingFields) = 1
         \/ (DifferingFields # {} /\ NoLineFeeds) )
    => Distinguished

\* Only the digest differs, empty against non-empty, and the target holds a
\* line feed.
C12_Witness ==
    /\ Signed
    /\ DifferingFields = {"digest"}
    /\ cnArgs.a.digest = << >>
    /\ HasLineFeed(cnArgs.a.requestTarget)
    /\ cnOut.componentA # cnOut.componentB
    /\ cnOut.verdict = Return(FALSE)

\* The lines of the signature component of a tuple, as the protocol lists them.
CanonicalLines(t) ==
    <<"Client-Id:">> \o t.clientId \o <<"\n">>
    \o <<"Request-Id:">> \o t.requestId \o <<"\n">>
    \o <<"Request-Timestamp:">> \o t.requestTimestamp \o <<"\n">>
    \o <<"Request-Target:">> \o t.requestTarget

\* C17: the string generateSignature signs is the four lines Client-Id,
\* Request-Id, Request-Timestamp, Request-Target in that order, joined by one
\* line feed, followed by a line feed and the Digest line exactly when the
\* digest is not empty.
C17_CanonicalString ==
    Signed =>
      /\ cnArgs.a.digest = << >> => cnOut.componentA = CanonicalLines(cnArgs.a)
      /\ cnArgs.a.digest # << >>
           => cnOut.componentA
                = CanonicalLines(cnArgs.a) \o <<"\n", "Digest:">> \o cnArgs.a.digest
      /\ cnOut.signatureA
           = <<"HMACSHA256=">> \o HmacSHA256(cnOut.componentA, config.secretKey)

C17_Witness ==
    /\ Signed
    /\ cnArgs.a.digest = << >>
    /\ ~HasLineFeed(cnArgs.a.requestTarget)
    /\ cnOut.componentA[Len(cnOut.componentA) - 1] = "Request-Target:"
    /\ cnOut.componentA[Len(cnOut.componentA)] = "/api/callback"

\* C13: validateSignature never raises: for every input, a missing or null
\* headers object included, it returns a boolean.
C13_NeverThrows ==
    Validated => vsResult.kind = "return" /\ vsResult.value \in BOOLEAN

\* The order of the statements of validateSignature.
CheckOrder == <<"present", "clientId", "digest", "hmac", "compare">>
IsPrefix(s, t) == Len(s) <= Len(t) /\ s = SubSeq(t, 1, Len(s))
Hashed == \E i \in 1..Len(vsSteps) : vsSteps[i] \in {"digest", "hmac"}
AllPresent ==
    /\ vsArgs.headers.t = "object"
    /\ \A k \in {"signature", "timestamp", "requestId", "clientId"} :
         Truthy(HeaderField(k))
OwnClient == HeaderField("clientId") = Str(config.clientId)

\* C20: validateSignature runs its checks in the order presence, client id,
\* digest and HMAC, comparison; the digest and the HMAC are computed only when
\* the four fields are present and the client id is the configured one; a call
\* that fails the presence check or the client id check returns false having
\* hashed nothing.
C20_CheckOrder ==
    Validated =>
      /\ IsPrefix(vsSteps, CheckOrder)
      /\ Hashed => (AllPresent /\ OwnClient)
      /\ (vsArgs.headers.t = "object" /\ ~AllPresent)
           => (vsSteps = <<"present">> /\ vsResult = Return(FALSE))
      /\ (AllPresent /\ ~OwnClient)
           => (vsSteps = <<"present", "clientId">> /\ vsResult = Return(FALSE))
      /\ (AllPresent /\ OwnClient) => vsSteps = CheckOrder

\* A call with all four fields and a foreign client id stopped at the second
\* check.
C20_Witness ==
    /\ Validated
    /\ AllPresent
    /\ ~OwnClient
    /\ vsSteps = <<"present", "clientId">>
    /\ ~Hashed

Built(c) == request[c] # NoRequest

\* The request createPayment builds from the call's input with its own
\* request id, at some instant: body, digest and signature computed once.
SignedFromInput(c) ==
    \E iso \in IsoNow :
      request[c] = buildRequest(config, baseUrl, paymentData[c],
                                request[c].headers.RequestId, iso)

\* C14: within one createPayment call the request is signed once, before the
\* first attempt, and every attempt, the first and each retry, is made with
\* the same url, body and Request-Id, Request-Timestamp and Signature headers.
C14_SameSignedRequest ==
    \A c \in Calls :
      /\ Attempts(c) > 0 => (Built(c) /\ SignedFromInput(c))
      /\ Attempts(c) = Len(frames[c])
      /\ \A i \in 1..Attempts(c) :
           /\ fetchCalls[c][i].url = request[c].url
           /\ fetchCalls[c][i].body = request[c].body
           /\ fetchCalls[c][i].headers.RequestId = request[c].headers.RequestId
           /\ fetchCalls[c][i].headers.RequestTimestamp = request[c].headers.RequestTimestamp
           /\ fetchCalls[c][i].headers.Signature = request[c].headers.Signature
           /\ fetchCalls[c][i] = fetchCalls[c][1]

\* Three retries of one signed request.
C14_Witness ==
    /\ Finished(1)
    /\ Attempts(1) = DefaultRetries + 1
    /\ fetchCalls[1][DefaultRetries + 1] = request[1]
    /\ Succeeded(1)

\* The customer id in a request body: what stands between customer:{id: and
\* ,name: in the string.
customerIdOf(body) ==
    LET i == CHOOSE k \in 1..Len(body) : body[k] = "]},customer:{id:"
        j == CHOOSE k \in 1..Len(body) : body[k] = ",name:"
    IN  SubSeq(body, i + 1, j - 1)

NoEmailInput == Obj(Without(ValidPayment, "customerEmail"))

\* C18: an input without customer email makes createPayment send a request
\* whose customer id is "GUEST-" and the first 8 characters of the call's
\* request id; with an email the customer id is the email.
C18_GuestCustomerId ==
    \A c \in Calls :
      pc[c] # "idle" =>
        /\ paymentData[c] = NoEmailInput
             => /\ Attempts(c) > 0
                /\ customerIdOf(fetchCalls[c][1].body)
                     = <<"GUEST-">> \o Slice0(request[c].headers.RequestId, 8)
        /\ (Built(c) /\ "customerEmail" \in DOMAIN paymentData[c].f)
             => customerIdOf(request[c].body) = paymentData[c].f.customerEmail.s

\* The waits call c has started: one for each attempt that was followed by a
\* retry, and one more while its timer runs.
ExpectedWaits(c) ==
    IF pc[c] = "backoff" THEN Attempts(c)
    ELSE IF Attempts(c) = 0 THEN 0
    ELSE Attempts(c) - 1

\* C19: every retry is preceded by exactly one backoff wait and nothing else
\* waits: the waits number the attempts less one, a wait follows a transient
\* failure that leaves budget and is followed by the next attempt, and there
\* is no wait before the first attempt, after a 2xx or 4xx response, or after
\* the failure that exhausts the budget.
C19_OneWaitPerRetry ==
    \A c \in Calls :
      /\ waits[c] = ExpectedWaits(c)
      /\ Finished(c) /\ Attempts(c) > 0 => waits[c] = Attempts(c) - 1
      /\ \A i \in 1..(Len(frames[c]) - 1) :
           IsTransient(frames[c][i].outcome) /\ frames[c][i].retries > 0
      /\ pc[c] = "backoff"
           => /\ IsTransient(Top(frames[c]).outcome)
              /\ Top(frames[c]).retries > 0
              /\ ENABLED BackoffElapses(c)
      /\ ( /\ Attempts(c) > 0
           /\ Top(frames[c]).outcome # Pending
           /\ \/ ~IsTransient(Top(frames[c]).outcome)
              \/ Top(frames[c]).retries = 0 )
           => pc[c] \in {"json", "done"}

\* Two waits, then a 4xx response that is not waited on.
C19_Witness ==
    /\ Finished(1)
    /\ Attempts(1) = 3
    /\ waits[1] = 2
    /\ IsResponse(Top(frames[1]).outcome, 400, 499)

\* Call c can take its next step.
NotBlocked(c) == pc[c] # "done" => ENABLED ConcStep(c)

\* The budget of each activation of call c counts the call's own retries.
OwnBudget(c) ==
    \A i \in 1..Len(frames[c]) : frames[c][i].retries = DefaultRetries - (i - 1)

\* The result of call c is the one its own last transport outcome gives.
OwnResult(c) ==
    (Finished(c) /\ Attempts(c) > 0) =>
      /\ Attempts(c) = Len(frames[c])
      /\ \A i \in 1..(Len(frames[c]) - 1) : IsTransient(frames[c][i].outcome)
      /\ result[c] = IF Top(frames[c]).outcome.kind = "rejection"
                     THEN settle(Throw(Top(frames[c]).outcome.error))
                     ELSE settle(handleResponse(Top(frames[c]).outcome))

\* C15: the backoff wait of one createPayment call does not block another:
\* whatever the other call is doing, its retry wait included, a call can take
\* its next step, its budget and its result come from its own transport
\* outcomes, and a call that has started resolves though the other never
\* leaves its wait.
C15_BackoffDoesNotBlock ==
    /\ [](\A c \in Calls : NotBlocked(c) /\ OwnBudget(c) /\ OwnResult(c))
    /\ (pc[2] # "idle") ~> Finished(2)

\* The second call used its whole budget and resolved while the first sat in
\* its first wait.
C15_Witness ==
    /\ pc[1] = "backoff"
    /\ Attempts(1) = 1
    /\ Finished(2)
    /\ Attempts(2) = DefaultRetries + 1
    /\ Failed(2)

\* C16: concurrent createPayment calls never collide on signing material:
\* each call has its own request id, the request ids (and so the signatures)
\* of two calls differ, each call transmits the request it built itself, and
\* no step changes a request that has been built.
C16_OwnSigningMaterial ==
    /\ [](\A c \in Calls : \A d \in Calls \ {c} :
            (Built(c) /\ Built(d)) =>
              /\ request[c].headers.RequestId # request[d].headers.RequestId
              /\ request[c].headers.Signature # request[d].headers.Signature
              /\ SignedFromInput(c)
              /\ \A i \in 1..Attempts(c) : fetchCalls[c][i] = request[c])
    /\ [][\A c \in Calls :
            /\ Built(c) => request'[c] = request[c]
            /\ \A i \in 1..Attempts(c) : fetchCalls'[c][i] = fetchCalls[c][i]]_vars

\* Both calls are retrying, each with its own request.
C16_Witness ==
    /\ Attempts(1) = 2
    /\ Attempts(2) = 2
    /\ request[1].headers.RequestId # request[2].headers.RequestId
    /\ request[1].headers.RequestTimestamp = request[2].headers.RequestTimestamp

\* The value a 2xx body carries for a field under the response envelope, and
\* at the top level; Undefined when it carries none.
NestedValue(body, section, key) == OptGet(OptGet(Get(body, "response"), section), key)
FlatValue(body, section, key) == OptGet(Get(body, section), key)
NestedThenFlat(body, section, key) ==
    IF NestedValue(body, section, key) # Undefined
    THEN NestedValue(body, section, key)
    ELSE FlatValue(body, section, key)

\* C21: on a 2xx response each of paymentUrl, invoiceNumber and amount is the
\* value under the response envelope when the body carries one there (a
\* nested amount of 0 included), and the top-level value otherwise.
C21_NestedThenFlat ==
    \A c \in Calls :
      ( /\ Finished(c)
        /\ Attempts(c) > 0
        /\ IsResponse(Top(frames[c]).outcome, 200, 299)
        /\ ParsedBody(Top(frames[c]).outcome) )
      => LET body == Top(frames[c]).outcome.body
         IN  /\ Succeeded(c)
             /\ result[c].value.paymentUrl = NestedThenFlat(body, "payment", "url")
             /\ result[c].value.invoiceNumber = NestedThenFlat(body, "order", "invoice_number")
             /\ result[c].value.amount = NestedThenFlat(body, "order", "amount")

\* What a receiver of the request req hands to validateSignature: the
\* transmitted header values.
InboundOf(req) ==
    Obj([ signature |-> Str(req.headers.Signature),
          timestamp |-> Str(req.headers.RequestTimestamp),
          requestId |-> Str(req.headers.RequestId),
          clientId |-> Str(req.headers.ClientId) ])

\* C22: every request createPayment transmits, on the first attempt and on
\* every retry, carries the signature generateSignature gives for its own
\* Client-Id, Request-Id and Request-Timestamp headers, the path
\* /checkout/v1/payment and the digest of the transmitted body, so
\* validateSignature on the same client accepts it.
C22_TransmittedRequestVerifies ==
    \A c \in Calls : \A i \in 1..Attempts(c) :
      LET req == fetchCalls[c][i]
      IN  /\ req.headers.Signature
               = generateSignature(req.headers.ClientId, req.headers.RequestId,
                                   <<"/checkout/v1/payment">>, generateDigest(req.body),
                                   config.secretKey, req.headers.RequestTimestamp)
          /\ validateSignature(config, req.body, InboundOf(req),
                               <<"/checkout/v1/payment">>) = Return(TRUE)

\* The fourth attempt of a call has been made and verifies.
C22_Witness ==
    /\ Attempts(1) = DefaultRetries + 1
    /\ validateSignature(config, fetchCalls[1][DefaultRetries + 1].body,
                         InboundOf(fetchCalls[1][DefaultRetries + 1]),
                         <<"/checkout/v1/payment">>) = Return(TRUE)

Verified == vsArgs.kind = "call" /\ vnResult # NotCalled

\* C23: verifyNotificationSignature returns false for every input, also for
\* a body, signature, timestamp and request id that validateSignature
\* accepts with the matching request target; it never accepts a notification.
C23_PlaceholderRejects == Verified => vnResult = Return(FALSE)

\* Both entry points were called on a notification validateSignature accepts.
C23_Witness ==
    /\ Verified
    /\ Validated
    /\ vsResult = Return(TRUE)
    /\ vnResult = Return(FALSE)

\* The client holds a valid configuration and the base URL of its environment.
AsConstructed ==
    /\ ConfigSchemaOk(config)
    /\ config.isProduction => baseUrl = <<"https://api.doku.com">>
    /\ ~config.isProduction => baseUrl = <<"https://api-sandbox.doku.com">>

\* Every request transmitted goes to the base URL and carries the client id
\* of the configuration.
UsesCredentials ==
    \A c \in Calls : \A i \in 1..Attempts(c) :
      /\ fetchCalls[c][i].url = baseUrl \o <<"/checkout/v1/payment">>
      /\ fetchCalls[c][i].headers.ClientId = config.clientId

\* C24: after any sequence of createPayment and validateSignature calls,
\* successful or failed, in any interleaving, the client id, the secret key
\* and the base URL are those fixed at construction: no step changes them;
\* and a validateSignature call makes no transport attempt and changes no
\* state of the client or of a payment call.
C24_ClientStateFixed ==
    /\ [](AsConstructed /\ UsesCredentials)
    /\ [][config' = config /\ baseUrl' = baseUrl]_vars
    /\ [][(vsResult = NotCalled /\ vsResult' # NotCalled)
            => UNCHANGED <<clientVars, payVars>>]_vars

\* A payment succeeded after a retry, another failed on invalid input, and a
\* notification was accepted while a second one is waiting.
C24_Witness ==
    /\ Finished(1) /\ Succeeded(1) /\ Attempts(1) = 2
    /\ Finished(2) /\ Failed(2) /\ Attempts(2) = 0
    /\ vsArgs.kind = "call"
    /\ vsResult = Return(TRUE)
    /\ AsConstructed

====
